---- MODULE Spec2Model ----
(***************************************************************************)
(* universityScraper (src/main.py): a driver loop over university records  *)
(* that calls generate_transfer_data once per record (an HTTP POST with    *)
(* bounded retries and exponential backoff) and writes each returned data  *)
(* block to a per-university file.                                         *)
(*                                                                         *)
(* Names and URLs are sequences of one-character strings, so that          *)
(* sanitize_filename and the domain extraction are computed character by   *)
(* character.  JSON objects are records, JSON arrays are sequences.        *)
(* Input assumption: every record of the list carries a college_name and   *)
(* a url of the form scheme://host[/path].                                 *)
(***************************************************************************)
EXTENDS Integers, Sequences, FiniteSets, TLC

VARIABLES
    tester_json,              \* the data file on disk, as load_university_data finds it
    API_KEY,                  \* module constant of the run: "" when absent
    files,                    \* the colleges/ directory: path -> file
    CALIFORNIA_UNIVERSITIES,  \* the loaded list (None before / on failed load)
    pc,                       \* position of the single thread of control
    idx,                      \* position of the for-loop iterator in the list (1-based)
    total_processed,
    name, domain,             \* the current record's name and domain
    current_time, attempt,    \* locals of generate_transfer_data
    e,                        \* the exception bound by the except clause
    data_block,               \* value returned by generate_transfer_data
    clock,                    \* number of clock readings made so far
    pauses,                   \* history: politeness sleeps made in the run, in order
    requests,                 \* history: requests.post calls of the current call
    sleeps,                   \* history: backoff sleeps of the current call, in order
    outcomes,                 \* history: what each request of the current call met
    transport,                \* NoMock, or the script of a deterministic mocked transport
    first_call                \* history: summary of the first call made against a mock

vars == <<tester_json, API_KEY, files, CALIFORNIA_UNIVERSITIES, pc, idx,
          total_processed, name, domain, current_time, attempt, e, data_block,
          clock, pauses, requests, sleeps, outcomes, transport, first_call>>

-----------------------------------------------------------------------------
(* Bounds of the model *)

MaxUnis == 2        \* longest university list drawn in Init

-----------------------------------------------------------------------------
(* Program constants *)

max_retries == 5
initial_delay == 1
POLITENESS_DELAY_SECONDS == 3
COLLEGES_DIR == "colleges"

None == [py |-> "None"]
Unset == [py |-> "unset"]

-----------------------------------------------------------------------------
(* sanitize_filename *)

invalid_chars == <<"<", ">", ":", "\"", "/", "\\", "|", "?", "*">>

whitespace == {" ", "\t", "\n", "\r"}

\* str.replace(old, new) for one-character old and new
RECURSIVE replace(_, _, _)
replace(s, old, new) ==
    IF s = <<>> THEN <<>>
    ELSE <<IF Head(s) = old THEN new ELSE Head(s)>> \o replace(Tail(s), old, new)

RECURSIVE lstrip(_)
lstrip(s) == IF s # <<>> /\ Head(s) \in whitespace THEN lstrip(Tail(s)) ELSE s

RECURSIVE rstrip(_)
rstrip(s) ==
    IF s # <<>> /\ s[Len(s)] \in whitespace THEN rstrip(SubSeq(s, 1, Len(s) - 1)) ELSE s

strip(s) == rstrip(lstrip(s))

\* the for loop over invalid_chars, from its k-th character on
RECURSIVE ReplaceInvalid(_, _)
ReplaceInvalid(filename, k) ==
    IF k > Len(invalid_chars) THEN filename
    ELSE ReplaceInvalid(replace(filename, invalid_chars[k], "_"), k + 1)

sanitize_filename(filename) == strip(ReplaceInvalid(filename, 1))

\* os.path.join(COLLEGES_DIR, f"{safe_filename}.txt")
file_path(safe_filename) == <<COLLEGES_DIR, safe_filename \o <<".txt">>>>

-----------------------------------------------------------------------------
(* uni['url'].split('//')[1].split('/')[0] *)

StartsWith(s, sep) == Len(s) >= Len(sep) /\ SubSeq(s, 1, Len(sep)) = sep

\* str.split(sep): cur is the part being collected
RECURSIVE SplitFrom(_, _, _)
SplitFrom(s, sep, cur) ==
    IF s = <<>> THEN <<cur>>
    ELSE IF StartsWith(s, sep)
         THEN <<cur>> \o SplitFrom(SubSeq(s, Len(sep) + 1, Len(s)), sep, <<>>)
         ELSE SplitFrom(Tail(s), sep, Append(cur, Head(s)))

split(s, sep) == SplitFrom(s, sep, <<>>)

DomainOf(url) == split(split(url, <<"/", "/">>)[2], <<"/">>)[1]

-----------------------------------------------------------------------------
(* Inputs: university records and the data file *)

\* Three records; the names of the first two sanitize to the same filename.
Unis ==
    { [college_name |-> <<"A", "/", "B">>,
       url |-> <<"h", ":", "/", "/", "a", ".", "e", "/", "t">>],
      [college_name |-> <<" ", "A", ":", "B">>,
       url |-> <<"h", ":", "/", "/", "b", ".", "e">>],
      [college_name |-> <<"C">>,
       url |-> <<"h", ":", "/", "/", "c", ".", "e", "/">>] }

RECURSIVE SeqsUpTo(_, _)
SeqsUpTo(S, n) ==
    IF n = 0 THEN {<<>>}
    ELSE LET shorter == SeqsUpTo(S, n - 1)
         IN  shorter \cup {Append(s, x) : s \in shorter, x \in S}

DataFiles ==
    { [kind |-> "missing"], [kind |-> "unreadable"], [kind |-> "invalid"] }
    \cup { [kind |-> "json", value |-> l] : l \in SeqsUpTo(Unis, MaxUnis) }

\* a loaded JSON array
List(l) == [list |-> l]

\* load_university_data
load_university_data(file) ==
    IF file.kind = "missing" THEN None
    ELSE IF file.kind \in {"unreadable", "invalid"} THEN None
    ELSE List(file.value)

\* mutant: the loaded data is only tested against None
TruthyData_NotNone(v) == "list" \in DOMAIN v

\* Python truth value of the loaded data: None and the empty list are false
TruthyData(v) == "list" \in DOMAIN v /\ v.list # <<>>

\* mutant: the test of data_block is missing
Truthy_Always(v) == TRUE

\* Python truth value of a returned data block: None is false, a block (a
\* non-empty string) is true
Truthy(v) == v # None /\ v # Unset

-----------------------------------------------------------------------------
(* What a request can meet *)

JsonNull == [null |-> TRUE]
Str(s) == [str |-> s]
EmptyDict == <<>>

FallbackText == "Failed to generate report text."

Bodies ==
    { [candidates |-> << [content |-> [parts |-> << [text |-> Str("X")] >>]] >>],
      [promptFeedback |-> Str("blocked")],
      [candidates |-> << >>],
      [candidates |-> << [finishReason |-> Str("SAFETY")] >>],
      [candidates |-> << [content |-> [role |-> Str("model")]] >>],
      [candidates |-> << [content |-> [parts |-> << >>]] >>],
      [candidates |-> << [content |-> [parts |-> << [inlineData |-> Str("d")] >>]] >>],
      [candidates |-> << [content |-> [parts |-> << [text |-> JsonNull] >>]] >>] }

ConnectionError == [cls |-> "ConnectionError", msg |-> "connection refused"]
HTTPError == [cls |-> "HTTPError", msg |-> "500 Server Error"]
IndexError == [cls |-> "IndexError", msg |-> "list index out of range"]
TypeError == [cls |-> "TypeError", msg |-> "can only concatenate str"]

\* mutant: the first handler catches every exception
IsRequestException_All(x) == TRUE

\* subclasses of requests.exceptions.RequestException
RequestExceptionClasses == {"ConnectionError", "HTTPError"}

IsRequestException(x) == x.cls \in RequestExceptionClasses

\* what requests.post does: raise, or return a response
PostOutcomes ==
    { [kind |-> "raise", exc |-> ConnectionError],
      [kind |-> "response", status |-> 500, body |-> [error |-> Str("internal")]] }
    \cup { [kind |-> "response", status |-> 200, body |-> b] : b \in Bodies }

Raised(x) == [raised |-> TRUE, exc |-> x]
Value(v) == [raised |-> FALSE, value |-> v]

\* dict.get(key, default)
get(d, key, default) == IF key \in DOMAIN d THEN d[key] ELSE default

\* mutant: the extraction never finds the text
report_text_of_Fallback(result) == Value(Str(FallbackText))

\* the chained extraction of report_text; list[0] raises IndexError on an empty list
report_text_of(result) ==
    LET candidates == get(result, "candidates", <<EmptyDict>>)
    IN  IF Len(candidates) = 0 THEN Raised(IndexError)
        ELSE LET parts == get(get(candidates[1], "content", EmptyDict),
                              "parts", <<EmptyDict>>)
             IN  IF Len(parts) = 0 THEN Raised(IndexError)
                 ELSE Value(get(parts[1], "text", Str(FallbackText)))

\* mutant: NAME and DOMAIN are filled in the wrong way round
SuccessBlock_Swapped(n, d, t, text) ==
    [start |-> "--- UNIVERSITY_START ---", name |-> d, domain |-> n,
     report_date |-> t, text |-> text]

\* the returned string of a successful attempt: header, then the report text
SuccessBlock(n, d, t, text) ==
    [start |-> "--- UNIVERSITY_START ---", name |-> n, domain |-> d,
     report_date |-> t, text |-> text]

\* mutant: a failed call returns None
FailedBlock_None(n, d, t, x) == None

\* mutant: a failed call reports the error of its first attempt
FailedBlock_FirstError(n, d, t, x) ==
    [start |-> "--- UNIVERSITY_START ---", name |-> n, domain |-> d,
     report_date |-> t,
     status |-> <<"FAILED",
                  IF outcomes = <<>> THEN x.msg
                  ELSE IF outcomes[1].kind = "raise" THEN outcomes[1].exc.msg
                  ELSE "500 Server Error">>]

\* the returned string of a failed call: header, then STATUS: FAILED - {e}
FailedBlock(n, d, t, x) ==
    [start |-> "--- UNIVERSITY_START ---", name |-> n, domain |-> d,
     report_date |-> t, status |-> <<"FAILED", x.msg>>]

\* the body of the try statement after the API_KEY test, for one post outcome
TryBody(o, n, d, t) ==
    IF o.kind = "raise" THEN Raised(o.exc)
    ELSE IF o.status >= 400 /\ o.status < 600 THEN Raised(HTTPError)
    ELSE LET report_text == report_text_of(o.body)
         IN  IF report_text.raised THEN report_text
             ELSE IF "str" \notin DOMAIN report_text.value THEN Raised(TypeError)
             ELSE Value(SuccessBlock(n, d, t, report_text.value.str))

\* mutant: the credential is never tested
NoKey_Never == FALSE

\* not API_KEY
NoKey == API_KEY = ""

\* mutant: the retry test is off by one
MayRetry_OffByOne(a) == a < max_retries

\* the retry test of the RequestException handler
MayRetry(a) == a < max_retries - 1

\* mutant: the delay grows linearly
Delay_Linear(a) == initial_delay * (2 * a)

\* mutant: the exponent is not reset between calls
Delay_AcrossCalls(a) == initial_delay * (2 ^ (a + total_processed))

\* mutant: the delay triples
Delay_Base3(a) == initial_delay * (3 ^ a)

\* delay = initial_delay * (2 ** attempt)
Delay(a) == initial_delay * (2 ^ a)

\* mutant: the loop runs over range(max_retries - 1)
ForAttempt_Short(a) ==
    IF a < max_retries - 1 THEN [pc |-> "try", ret |-> Unset]
    ELSE [pc |-> "returned", ret |-> None]

\* the for statement over range(max_retries), arriving with attempt value a:
\* another iteration, or the fall-through return None
ForAttempt(a) ==
    IF a < max_retries THEN [pc |-> "try", ret |-> Unset]
    ELSE [pc |-> "returned", ret |-> None]

-----------------------------------------------------------------------------
(* Files *)

NoFile == [exists |-> FALSE]
File(content) == [exists |-> TRUE, content |-> content]
OldContent == [old |-> TRUE]
EmptyContent == [empty |-> TRUE]

\* file_path of every name of the input universe (sanitize_filename applied once
\* per name)
PathOf == [n \in {u.college_name : u \in Unis} |-> file_path(sanitize_filename(n))]

Paths == { PathOf[u.college_name] : u \in Unis }

\* open(file_path, 'w') then f.write(data_block), for each way it can end
WriteOutcomes == {"ok", "PermissionError", "IOError"}

\* mutant: the file is opened in append mode
WriteFile_Append(file, content, w) ==
    IF w = "ok"
    THEN IF file.exists THEN File([before |-> file.content, appended |-> content])
         ELSE File(content)
    ELSE IF w = "PermissionError" THEN file
    ELSE file

WriteFile(file, content, w) ==
    IF w = "ok" THEN File(content)
    ELSE IF w = "PermissionError" THEN file      \* open failed: nothing touched
    ELSE File(EmptyContent)                      \* opened (truncated), write failed

-----------------------------------------------------------------------------
(* Mocked transport *)

NoMock == [mock |-> FALSE]
Mock(script) == [mock |-> TRUE, script |-> script]

\* the outcome a request meets: free, or dictated by the mock's script
Meets(o) == IF transport.mock THEN o = transport.script[requests + 1] ELSE TRUE

\* what a caller can compare of a finished call, timestamps aside
CallSummary ==
    [ret |-> [f \in (DOMAIN data_block) \ {"report_date"} |-> data_block[f]],
     requests |-> requests, sleeps |-> sleeps, outcomes |-> outcomes]

-----------------------------------------------------------------------------
(* Initial states *)

InitCommon ==
    /\ API_KEY \in {"", "key"}
    /\ files \in {[p \in Paths |-> NoFile], [p \in Paths |-> File(OldContent)]}
    /\ CALIFORNIA_UNIVERSITIES = None
    /\ pc = "main"
    /\ idx = 1
    /\ total_processed = 0
    /\ name = <<>>
    /\ domain = <<>>
    /\ current_time = 0
    /\ attempt = 0
    /\ e = None
    /\ data_block = Unset
    /\ clock = 0
    /\ pauses = <<>>
    /\ requests = 0
    /\ sleeps = <<>>
    /\ outcomes = <<>>
    /\ first_call = None

Init ==
    /\ InitCommon
    /\ tester_json \in DataFiles
    /\ transport = NoMock

-----------------------------------------------------------------------------
(* The script: load, then the loop *)

Load ==
    /\ pc = "main"
    /\ CALIFORNIA_UNIVERSITIES' = load_university_data(tester_json)
    /\ pc' = IF TruthyData(CALIFORNIA_UNIVERSITIES') THEN "for" ELSE "exit"
    /\ UNCHANGED <<tester_json, API_KEY, files, idx, total_processed, name, domain,
                   current_time, attempt, e, data_block, clock, pauses, requests,
                   sleeps, outcomes, transport, first_call>>

\* next record of the list: name, domain, and the call of generate_transfer_data
\* up to the first iteration of its retry loop
NextUni ==
    /\ pc = "for"
    /\ idx <= Len(CALIFORNIA_UNIVERSITIES.list)
    /\ LET uni == CALIFORNIA_UNIVERSITIES.list[idx]
       IN  /\ name' = uni.college_name
           /\ domain' = DomainOf(uni.url)
    /\ clock' = clock + 1        \* datetime.now(): each call reads a later time
    /\ current_time' = clock'
    /\ attempt' = 0
    /\ pc' = ForAttempt(0).pc
    /\ data_block' = ForAttempt(0).ret
    /\ requests' = 0
    /\ sleeps' = <<>>
    /\ outcomes' = <<>>
    /\ e' = None
    /\ UNCHANGED <<tester_json, API_KEY, files, CALIFORNIA_UNIVERSITIES, idx,
                   total_processed, pauses, transport, first_call>>

EndLoop ==
    /\ pc = "for"
    /\ idx > Len(CALIFORNIA_UNIVERSITIES.list)
    /\ pc' = "done"
    /\ UNCHANGED <<tester_json, API_KEY, files, CALIFORNIA_UNIVERSITIES, idx,
                   total_processed, name, domain, current_time, attempt, e,
                   data_block, clock, pauses, requests, sleeps, outcomes, transport,
                   first_call>>

-----------------------------------------------------------------------------
(* generate_transfer_data: one iteration of the retry loop *)

MissingKey ==
    /\ pc = "try"
    /\ NoKey
    /\ data_block' = None
    /\ pc' = "returned"
    /\ UNCHANGED <<tester_json, API_KEY, files, CALIFORNIA_UNIVERSITIES, idx,
                   total_processed, name, domain, current_time, attempt, e, clock,
                   pauses, requests, sleeps, outcomes, transport, first_call>>

\* the request is made and the try body returns the data block
RequestReturns(o) ==
    /\ pc = "try"
    /\ ~NoKey
    /\ Meets(o)
    /\ LET r == TryBody(o, name, domain, current_time)
       IN  /\ ~r.raised
           /\ data_block' = r.value
    /\ pc' = "returned"
    /\ requests' = requests + 1
    /\ outcomes' = Append(outcomes, o)
    /\ UNCHANGED <<tester_json, API_KEY, files, CALIFORNIA_UNIVERSITIES, idx,
                   total_processed, name, domain, current_time, attempt, e, clock,
                   pauses, sleeps, transport, first_call>>

\* the try body raises a RequestException: retry after a sleep, or give up
RequestFails(o) ==
    /\ pc = "try"
    /\ ~NoKey
    /\ Meets(o)
    /\ LET r == TryBody(o, name, domain, current_time)
       IN  /\ r.raised
           /\ IsRequestException(r.exc)
           /\ e' = r.exc
           /\ IF MayRetry(attempt)
              THEN /\ pc' = "backoff"
                   /\ UNCHANGED data_block
              ELSE /\ pc' = "returned"
                   /\ data_block' = FailedBlock(name, domain, current_time, r.exc)
    /\ requests' = requests + 1
    /\ outcomes' = Append(outcomes, o)
    /\ UNCHANGED <<tester_json, API_KEY, files, CALIFORNIA_UNIVERSITIES, idx,
                   total_processed, name, domain, current_time, attempt, clock,
                   pauses, sleeps, transport, first_call>>

\* time.sleep(delay) ends and the for statement takes the next attempt
Backoff ==
    /\ pc = "backoff"
    /\ sleeps' = Append(sleeps, Delay(attempt))
    /\ attempt' = attempt + 1
    /\ pc' = ForAttempt(attempt + 1).pc
    /\ data_block' = ForAttempt(attempt + 1).ret
    /\ e' = None                 \* the except clause ends: e is unbound
    /\ UNCHANGED <<tester_json, API_KEY, files, CALIFORNIA_UNIVERSITIES, idx,
                   total_processed, name, domain, current_time, clock, pauses,
                   requests, outcomes, transport, first_call>>

\* the try body raises any other exception: no retry
RequestUnexpected(o) ==
    /\ pc = "try"
    /\ ~NoKey
    /\ Meets(o)
    /\ LET r == TryBody(o, name, domain, current_time)
       IN  /\ r.raised
           /\ ~IsRequestException(r.exc)
           /\ e' = r.exc
           /\ data_block' = FailedBlock(name, domain, current_time, r.exc)
    /\ pc' = "returned"
    /\ requests' = requests + 1
    /\ outcomes' = Append(outcomes, o)
    /\ UNCHANGED <<tester_json, API_KEY, files, CALIFORNIA_UNIVERSITIES, idx,
                   total_processed, name, domain, current_time, attempt, clock,
                   pauses, sleeps, transport, first_call>>

-----------------------------------------------------------------------------
(* The rest of the loop body, after the call has returned *)

\* mutant: the increment sits inside the if data_block block
Counted_IfData(n) == IF Truthy(data_block) THEN n + 1 ELSE n

\* total_processed += 1
Counted(n) == n + 1

\* mutant: the politeness delay follows every item, the last one too
PauseDue_Always(n) == TRUE

\* mutant: the politeness delay is never made
PauseDue_Never(n) == FALSE

\* if total_processed < len(CALIFORNIA_UNIVERSITIES)
PauseDue(n) == n < Len(CALIFORNIA_UNIVERSITIES.list)

\* the locals of the finished call go out of scope, and data_block is not read
\* again before the next call assigns it
EndIteration ==
    /\ total_processed' = Counted(total_processed)
    /\ pc' = IF PauseDue(total_processed') THEN "pause" ELSE "for"
    /\ idx' = idx + 1
    /\ first_call' = IF transport.mock /\ first_call = None
                     THEN [summary |-> CallSummary, at |-> current_time]
                     ELSE first_call
    /\ data_block' = Unset
    /\ current_time' = 0
    /\ attempt' = 0
    /\ e' = None
    /\ requests' = 0
    /\ sleeps' = <<>>
    /\ outcomes' = <<>>
    /\ UNCHANGED <<tester_json, API_KEY, CALIFORNIA_UNIVERSITIES, name, domain,
                   clock, pauses, transport>>

\* mutant: an exception of open or write is not caught and ends the script
Save_Unhandled(w) ==
    /\ pc = "returned"
    /\ Truthy(data_block)
    /\ IF w = "ok"
       THEN /\ files' = [files EXCEPT ![PathOf[name]] = File(data_block)]
            /\ EndIteration
       ELSE /\ pc' = "crashed"
            /\ UNCHANGED <<tester_json, API_KEY, files, CALIFORNIA_UNIVERSITIES, idx,
                           total_processed, name, domain, current_time, attempt, e,
                           data_block, clock, pauses, requests, sleeps, outcomes,
                           transport, first_call>>

\* data_block is true: write it to the university's file
Save(w) ==
    /\ pc = "returned"
    /\ Truthy(data_block)
    /\ files' = [files EXCEPT ![PathOf[name]] = WriteFile(@, data_block, w)]
    /\ EndIteration

\* data_block is None: nothing is written
Skip ==
    /\ pc = "returned"
    /\ ~Truthy(data_block)
    /\ UNCHANGED files
    /\ EndIteration

\* time.sleep(POLITENESS_DELAY_SECONDS)
Pause ==
    /\ pc = "pause"
    /\ pauses' = Append(pauses, POLITENESS_DELAY_SECONDS)
    /\ pc' = "for"
    /\ UNCHANGED <<tester_json, API_KEY, files, CALIFORNIA_UNIVERSITIES, idx,
                   total_processed, name, domain, current_time, attempt, e,
                   data_block, clock, requests, sleeps, outcomes, transport,
                   first_call>>

Next ==
    \/ Load
    \/ NextUni
    \/ EndLoop
    \/ MissingKey
    \/ \E o \in PostOutcomes : RequestReturns(o)
    \/ \E o \in PostOutcomes : RequestFails(o)
    \/ \E o \in PostOutcomes : RequestUnexpected(o)
    \/ Backoff
    \/ \E w \in WriteOutcomes : Save(w)
    \/ Skip
    \/ Pause

Spec == Init /\ [][Next]_vars

\* the single thread of control always takes its next step
FairSpec == Spec /\ WF_vars(Next)

-----------------------------------------------------------------------------
(* Runs against a deterministic mocked transport: the same record twice *)

\* the request met a transport or HTTP-error-status failure
IsRetryable(o) == o.kind = "raise" \/ (o.status >= 400 /\ o.status < 600)

\* scripts of max_retries outcomes; an outcome that ends a call is repeated to
\* the end of the script
Scripts ==
    { s \in [1..max_retries -> PostOutcomes] :
        \A i \in 1..(max_retries - 1) : ~IsRetryable(s[i]) => s[i + 1] = s[i] }

InitIdem ==
    /\ InitCommon
    /\ tester_json \in { [kind |-> "json", value |-> <<u, u>>] : u \in Unis }
    /\ transport \in { Mock(s) : s \in Scripts }

SpecIdem == InitIdem /\ [][Next]_vars

-----------------------------------------------------------------------------
(* Vocabulary of the claims *)

\* the two outcomes of the specification, read off a returned data block
IsExtracted(b) == "text" \in DOMAIN b
IsFailed(b) == "status" \in DOMAIN b

Returned == pc = "returned"

Items == CALIFORNIA_UNIVERSITIES.list

AllRetryable(outs) == \A i \in 1..Len(outs) : IsRetryable(outs[i])

\* initial_delay * 2^i for i = 0..k-1, in order
ExpectedSleeps(k) == [i \in 1..k |-> initial_delay * (2 ^ (i - 1))]

Caught(x) == "cls" \in DOMAIN x
CaughtRequestException ==
    IF Caught(e) THEN e.cls \in {"ConnectionError", "HTTPError"} ELSE FALSE
CaughtUnexpected ==
    IF Caught(e) THEN e.cls \notin {"ConnectionError", "HTTPError"} ELSE FALSE

\* the error a failing request raised
ErrorOf(o) == IF o.kind = "raise" THEN o.exc ELSE HTTPError

\* a 200 response whose body lacks the text field at some level of the path
LacksText(b) ==
    IF "candidates" \notin DOMAIN b THEN TRUE
    ELSE IF b.candidates = <<>> THEN TRUE
    ELSE IF "content" \notin DOMAIN b.candidates[1] THEN TRUE
    ELSE IF "parts" \notin DOMAIN b.candidates[1].content THEN TRUE
    ELSE IF b.candidates[1].content.parts = <<>> THEN TRUE
    ELSE "text" \notin DOMAIN b.candidates[1].content.parts[1]

IsOk(o) == o.kind = "response" /\ o.status = 200

\* a 200 response that carries a text string
Succeeds(o) ==
    IF IsOk(o) /\ ~LacksText(o.body)
    THEN "str" \in DOMAIN o.body.candidates[1].content.parts[1].text
    ELSE FALSE

TextOf(o) == o.body.candidates[1].content.parts[1].text.str

LastOutcome == outcomes[Len(outcomes)]

BlockFields == {"start", "name", "domain", "report_date"}

-----------------------------------------------------------------------------
(* C1 *)

\* C1: a call in which every attempt fails with a transport or HTTP-error-status
\* failure makes exactly max_retries requests, sleeps initial_delay * 2^i after
\* attempt i for i = 0..max_retries-2, in that order, does not sleep after the
\* final attempt, and returns a Failed block.
C1_AllAttemptsFail ==
    /\ (Returned /\ requests >= 1 /\ AllRetryable(outcomes))
          => /\ requests = max_retries
             /\ sleeps = ExpectedSleeps(max_retries - 1)
             /\ IsFailed(data_block)
    /\ (pc = "try" /\ AllRetryable(outcomes))
          => (requests = attempt /\ sleeps = ExpectedSleeps(attempt))
    /\ (pc = "backoff" /\ AllRetryable(outcomes))
          => (requests = attempt + 1 /\ sleeps = ExpectedSleeps(attempt))

C1_Witness ==
    /\ Returned
    /\ requests = max_retries
    /\ AllRetryable(outcomes)
    /\ sleeps = <<1, 2, 4, 8>>
    /\ IsFailed(data_block)

-----------------------------------------------------------------------------
(* C2 *)

\* C2 (as claimed): an unexpected exception at attempt index i is retried like a
\* transport failure, so the call returns Failed on it only at the last index.
C2_Original == (Returned /\ CaughtUnexpected) => attempt = max_retries - 1

\* C2 (amended): an unexpected exception at any attempt index is not retried:
\* the call returns at once a Failed block whose reason is that exception, with
\* no sleep after it and no further attempt.
C2_UnexpectedNotRetried ==
    CaughtUnexpected
        => /\ Returned
           /\ IsFailed(data_block)
           /\ data_block.status = <<"FAILED", e.msg>>
           /\ requests = attempt + 1
           /\ sleeps = ExpectedSleeps(attempt)

C2_Witness ==
    /\ Returned
    /\ CaughtUnexpected
    /\ attempt = 1
    /\ Len(sleeps) = 1
    /\ IsFailed(data_block)

-----------------------------------------------------------------------------
(* C3 *)

\* C3 (as claimed): with API_KEY absent the call makes no request, no sleep,
\* and returns a Failed outcome.
C3_Original ==
    (Returned /\ API_KEY = "")
        => (requests = 0 /\ sleeps = <<>> /\ IsFailed(data_block))

\* C3 (amended): with API_KEY absent the call makes no request, no sleep, and
\* returns None, an absent result and not a Failed block.
C3_MissingKeyReturnsNone ==
    (Returned /\ API_KEY = "")
        => (requests = 0 /\ sleeps = <<>> /\ data_block = None)

C3_Witness == Returned /\ API_KEY = "" /\ data_block = None /\ requests = 0

-----------------------------------------------------------------------------
(* C4 *)

\* C4: a 200 response whose body lacks the text field at any level of the
\* extraction path makes the call return Extracted with the fallback text,
\* never Failed, with no further attempt or sleep.
C4_FallbackOnMissingField ==
    (Returned /\ requests >= 1 /\ IsOk(LastOutcome) /\ LacksText(LastOutcome.body))
        => /\ IsExtracted(data_block)
           /\ data_block.text = FallbackText
           /\ requests = attempt + 1
           /\ Len(sleeps) = attempt

-----------------------------------------------------------------------------
(* C5 *)

\* C5: when attempts 0..k-1 fail with a retryable failure and attempt k
\* succeeds, the call has made k+1 requests and k sleeps of initial_delay * 2^i
\* (i = 0..k-1) when it returns, and returns Extracted with that response's text.
C5_SuccessAfterRetries ==
    (Returned /\ requests >= 1 /\ Succeeds(LastOutcome)
        /\ AllRetryable(SubSeq(outcomes, 1, Len(outcomes) - 1)))
        => LET k == Len(outcomes) - 1
           IN  /\ requests = k + 1
               /\ sleeps = ExpectedSleeps(k)
               /\ IsExtracted(data_block)
               /\ data_block.text = TextOf(LastOutcome)
               /\ k = 0 => sleeps = <<>>

C5_Witness ==
    /\ Returned
    /\ requests = 3
    /\ Succeeds(LastOutcome)
    /\ sleeps = <<1, 2>>
    /\ IsExtracted(data_block)
    /\ data_block.text = "X"

-----------------------------------------------------------------------------
(* C6 *)

\* C6 (as claimed): every call returns a well-formed outcome that is either
\* Extracted(text) or Failed(reason).
C6_Original == Returned => (IsExtracted(data_block) \/ IsFailed(data_block))

\* C6 (amended): no attempt outcome is left unhandled, and every call returns
\* either None, exactly when API_KEY is absent, or a block for the record it
\* was called for that is Extracted(text) or Failed(reason) and not both.
C6_WellFormedOutcome ==
    /\ Returned =>
          IF API_KEY = "" THEN data_block = None
          ELSE /\ data_block # None
               /\ IsExtracted(data_block) # IsFailed(data_block)
               /\ BlockFields \subseteq DOMAIN data_block
               /\ data_block.name = name
               /\ data_block.domain = domain
    /\ (pc = "try" /\ API_KEY # "") =>
          \A o \in PostOutcomes :
              Meets(o) => ENABLED (RequestReturns(o) \/ RequestFails(o)
                                      \/ RequestUnexpected(o))

C6_Witness ==
    /\ Returned
    /\ API_KEY # ""
    /\ IsFailed(data_block)
    /\ CaughtRequestException

-----------------------------------------------------------------------------
(* C7 *)

CallFailed == Returned /\ (data_block = None \/ IsFailed(data_block))

PathOfItem == PathOf[name]

\* the item's file holds a block marked failed for this item
FailedArtifact(f) ==
    IF f.exists
    THEN IF "status" \in DOMAIN f.content THEN f.content.name = name ELSE FALSE
    ELSE FALSE

\* C7 (as claimed): a terminal failure of an item's call, of any kind, leaves an
\* output file for that item marked as failed.
C7_Original == [][CallFailed => FailedArtifact(files'[PathOfItem])]_vars

\* C7 (amended): a call that ends in a Failed block (retries exhausted, or an
\* unexpected exception) has that block written to the item's file unless
\* opening or writing the file fails; a call that ends on the absent
\* credential returns None and nothing is written; in every case the item is
\* counted, the run is not aborted, and the run goes on to finish with every
\* item of the list processed.
C7_FailureDoesNotAbort ==
    /\ [][(Returned /\ IsFailed(data_block))
             => /\ files'[PathOfItem] \in
                      {File(data_block), files[PathOfItem], File(EmptyContent)}
                /\ total_processed' = total_processed + 1
                /\ idx' = idx + 1]_vars
    /\ [][(Returned /\ data_block = None)
             => /\ files' = files
                /\ total_processed' = total_processed + 1
                /\ idx' = idx + 1]_vars
    /\ [](pc = "done" => total_processed = Len(Items))
    /\ (CallFailed ~> (pc = "done" /\ total_processed = Len(Items)))

C7_Witness ==
    /\ pc = "try"
    /\ idx = 2
    /\ files[PathOf[Items[1].college_name]].exists
    /\ IsFailed(files[PathOf[Items[1].college_name]].content)

-----------------------------------------------------------------------------
(* C8 *)

\* a step taken inside a call returns, or adds one request or one sleep
CallStepAdvances ==
    pc \in {"try", "backoff"}
        => \/ pc' = "returned"
           \/ /\ pc' \in {"try", "backoff"}
              /\ requests' + Len(sleeps') = requests + Len(sleeps) + 1

\* C8: a call never makes more than max_retries requests nor more than
\* max_retries - 1 sleeps, its attempt index never passes max_retries - 1, and
\* every step of a call either returns or adds one request or one sleep, so
\* that a call ends within 2 * max_retries - 1 steps.
C8_HardCeiling ==
    /\ [](/\ requests <= max_retries
          /\ Len(sleeps) <= max_retries - 1
          /\ attempt <= max_retries - 1
          /\ pc \in {"try", "backoff"} => requests <= attempt + 1)
    /\ [][CallStepAdvances]_vars

C8_Witness == Returned /\ requests = max_retries /\ Len(sleeps) = max_retries - 1

-----------------------------------------------------------------------------
(* C9 *)

\* C9 (as claimed): the Failed outcome returned on a transport or HTTP failure
\* at the last index carries that attempt's error, the attempt count i+1, and
\* the item's name and domain.
C9_Original ==
    (Returned /\ CaughtRequestException)
        => /\ IsFailed(data_block)
           /\ data_block.status = <<"FAILED", ErrorOf(LastOutcome).msg>>
           /\ data_block.name = Items[idx].college_name
           /\ data_block.domain = DomainOf(Items[idx].url)
           /\ IF "attempts" \in DOMAIN data_block
              THEN data_block.attempts = attempt + 1 ELSE FALSE

\* C9 (amended): the Failed block returned on a transport or HTTP failure is
\* returned at the last index max_retries - 1 and carries the error of that
\* final attempt (not of an earlier one) and the item's name and domain; it
\* carries no attempt count.
C9_FinalErrorReported ==
    (Returned /\ CaughtRequestException)
        => /\ attempt = max_retries - 1
           /\ IsFailed(data_block)
           /\ data_block.status = <<"FAILED", ErrorOf(LastOutcome).msg>>
           /\ data_block.name = Items[idx].college_name
           /\ data_block.domain = DomainOf(Items[idx].url)
           /\ DOMAIN data_block = BlockFields \cup {"status"}

C9_Witness ==
    /\ Returned
    /\ CaughtRequestException
    /\ ErrorOf(outcomes[1]) = ConnectionError
    /\ ErrorOf(LastOutcome) = HTTPError
    /\ data_block.status = <<"FAILED", HTTPError.msg>>

-----------------------------------------------------------------------------
(* C10 *)

\* C10: a second call with the same record, against the same deterministic
\* sequence of transport outcomes, returns what the first call returned
\* (timestamps aside) after the same requests and the same sleeps.
C10_Idempotent ==
    (Returned /\ first_call # None) => CallSummary = first_call.summary

C10_Witness ==
    /\ Returned
    /\ first_call # None
    /\ first_call.at # current_time
    /\ Len(sleeps) >= 2
    /\ IsExtracted(data_block)

-----------------------------------------------------------------------------
(* C11 *)

IsBlock(c) == "start" \in DOMAIN c

\* the block c, found in the file at path p, is the block of the record at
\* position c.report_date of the list, and that record's name gives path p
BlockOfRecordAt(c, p) ==
    IF c.report_date \in 1..Len(Items)
    THEN LET uni == Items[c.report_date]
         IN  /\ c.start = "--- UNIVERSITY_START ---"
             /\ c.name = uni.college_name
             /\ c.domain = DomainOf(uni.url)
             /\ PathOf[uni.college_name] = p
             /\ IsExtracted(c) # IsFailed(c)
    ELSE FALSE

\* C11 (as claimed): after the run every record of the list has a file that
\* holds the header with that record's own name and domain.
C11_Original ==
    pc = "done" =>
        \A j \in 1..Len(Items) :
            LET f == files[PathOf[Items[j].college_name]]
            IN  IF f.exists /\ IsBlock(f.content)
                THEN /\ f.content.name = Items[j].college_name
                     /\ f.content.domain = DomainOf(Items[j].url)
                ELSE FALSE

\* C11 (amended): after the run there is one file per sanitized filename at
\* most; a file that holds a data block holds the header with the name and
\* domain of one record of the list whose name sanitizes to that filename,
\* followed by either the extracted text or a failure status line; any other
\* file is absent, left as it was before the run, or left empty by a failed
\* write; with the credential absent no file holds a block.
C11_FilesAtEnd ==
    pc = "done" =>
        \A p \in Paths :
            LET f == files[p]
            IN  IF ~f.exists THEN TRUE
                ELSE IF IsBlock(f.content)
                     THEN API_KEY # "" /\ BlockOfRecordAt(f.content, p)
                     ELSE f.content \in {OldContent, EmptyContent}

C11_Witness ==
    /\ pc = "done"
    /\ Len(Items) = 2
    /\ Items[1].college_name # Items[2].college_name
    /\ PathOf[Items[1].college_name] = PathOf[Items[2].college_name]
    /\ LET f == files[PathOf[Items[2].college_name]]
       IN  IF f.exists /\ IsBlock(f.content)
           THEN f.content.name = Items[2].college_name /\ IsFailed(f.content)
           ELSE FALSE

-----------------------------------------------------------------------------
(* C12 *)

InCall == pc \in {"try", "backoff", "returned"}

\* the politeness delays slept so far when the driver is at item idx
PausesBefore(i) == IF i <= Len(Items) THEN i - 1 ELSE Len(Items) - 1

\* C12: every sleep of a run is either a backoff sleep of the executor, the
\* i-th of a call being initial_delay * 2^(i-1) and following a failed
\* request, or the caller's politeness delay of POLITENESS_DELAY_SECONDS;
\* the politeness delay has been slept exactly once for each item before the
\* current one, whatever those items produced, so never before the first
\* item and never after the last one.
C12_OnlyDocumentedSleeps ==
    /\ \A i \in 1..Len(pauses) : pauses[i] = POLITENESS_DELAY_SECONDS
    /\ sleeps = ExpectedSleeps(Len(sleeps))
    /\ Len(sleeps) <= requests
    /\ pc \in {"try", "backoff"} => Len(sleeps) = attempt
    /\ pc \in {"main", "exit"} => pauses = <<>>
    /\ InCall => Len(pauses) = idx - 1
    /\ pc = "pause" => idx <= Len(Items) /\ Len(pauses) = idx - 2
    /\ pc = "for" => Len(pauses) = PausesBefore(idx)
    /\ pc = "done" => Len(pauses) = Len(Items) - 1

C12_Witness ==
    /\ pc = "done"
    /\ Len(Items) = MaxUnis
    /\ Len(pauses) = MaxUnis - 1
    /\ \E p \in Paths : files[p].exists /\ files[p].content # OldContent
    /\ \E p \in Paths : ~files[p].exists

-----------------------------------------------------------------------------
(* C13 *)

RECURSIVE Sum(_)
Sum(s) == IF s = <<>> THEN 0 ELSE Head(s) + Sum(Tail(s))

MaxBackoff == initial_delay * (2 ^ (max_retries - 1) - 1)

\* C13: the cumulative backoff sleep of one call never exceeds
\* initial_delay * (2^(max_retries-1) - 1), whatever the attempts' outcomes,
\* and is exactly that value (15 for the program's max_retries = 5 and
\* initial_delay = 1) when the call returns after max_retries attempts that
\* all failed with a transport failure.
C13_CumulativeBackoff ==
    /\ Sum(sleeps) <= MaxBackoff
    /\ (Returned /\ Len(outcomes) = max_retries /\ AllRetryable(outcomes))
           => Sum(sleeps) = MaxBackoff /\ MaxBackoff = 15

C13_Witness ==
    /\ Returned
    /\ requests = max_retries
    /\ Len(outcomes) = max_retries
    /\ AllRetryable(outcomes)
    /\ Sum(sleeps) = 15

-----------------------------------------------------------------------------
(* C14 *)

\* the positions of the list whose record is written to path p
RecordsAt(p) == {j \in 1..Len(Items) : PathOf[Items[j].college_name] = p}

Last(S) == CHOOSE j \in S : \A k \in S : k <= j

WriteStep == pc = "returned" /\ idx' = idx + 1

\* C14 (amended): the driver touches no file but the one of the current
\* item's sanitized name, and only when the call returned a non-empty
\* result; a write that completes leaves in the file exactly the returned
\* block, with nothing of an earlier write or of a pre-existing file; when
\* the open fails the file keeps what it had, and when the write fails after
\* the open the file is left empty.
C14_OverwriteStep ==
    /\ \A p \in Paths :
           files'[p] # files[p] =>
               /\ WriteStep
               /\ Truthy(data_block)
               /\ p = PathOfItem
               /\ files'[p] \in {File(data_block), File(EmptyContent)}
    /\ (WriteStep /\ Truthy(data_block) /\ files'[PathOfItem].exists
            /\ IsBlock(files'[PathOfItem].content)
            /\ files'[PathOfItem].content.report_date = current_time)
           => files'[PathOfItem] = File(data_block)

-----------------------------------------------------------------------------
(* C15 *)

\* a step that issues a request (the request and its response are one step:
\* requests.post blocks until the response or the exception arrives)
IssuesRequest == requests' # requests /\ requests' # 0

\* C15: a step issues at most one request; the request of attempt i+1 is
\* issued only when the i backoff sleeps after the earlier attempts of the
\* call are over; and the first request for the item at position j is issued
\* only when the j-1 earlier items have been counted, their calls having
\* returned and their writes being over, and the j-1 politeness delays
\* after them have been slept.
C15_SequentialStep ==
    IssuesRequest =>
        /\ pc = "try"
        /\ requests' = requests + 1
        /\ requests = attempt
        /\ Len(sleeps) = attempt
        /\ sleeps = ExpectedSleeps(attempt)
        /\ total_processed = idx - 1
        /\ Len(pauses) = idx - 1
        /\ UNCHANGED <<files, pauses, sleeps, total_processed, idx>>

C15_Sequential == [][C15_SequentialStep]_vars

\* the second request of the second item: one backoff sleep of this call and
\* the politeness delay after the first item are over
C15_Witness ==
    /\ pc = "try"
    /\ idx = 2
    /\ requests = 1
    /\ sleeps = <<initial_delay>>
    /\ pauses = <<POLITENESS_DELAY_SECONDS>>
    /\ total_processed = 1

-----------------------------------------------------------------------------
(* C16 *)

\* C16: total_processed counts the records whose iteration is over: while
\* the driver is at the item at position j counted from 0 (idx = j + 1) it
\* equals j, whatever the earlier calls returned and whether or not their
\* files were written, and when the loop has ended it equals the length of
\* the list.
C16_CountedOncePerRecord ==
    /\ pc \in {"for", "try", "backoff", "returned", "pause", "done"}
           => total_processed = idx - 1
    /\ pc \in {"main", "exit"} => total_processed = 0
    /\ InCall => idx <= Len(Items)
    /\ pc = "done" => total_processed = Len(Items)

\* the loop has ended after an item whose write failed and an item whose
\* block was written
C16_Witness ==
    /\ pc = "done"
    /\ total_processed = 2
    /\ \E p \in Paths : files[p] = File(EmptyContent)
    /\ \E p \in Paths : files[p].exists /\ IsBlock(files[p].content)

-----------------------------------------------------------------------------
(* C17 *)

\* the step that ends the current item's iteration with a failed save: the
\* call returned a block and the file does not hold it afterwards
SaveFails ==
    /\ pc = "returned"
    /\ Truthy(data_block)
    /\ files'[PathOfItem] # File(data_block)

\* C17: a step in which saving the item's file fails still counts the item,
\* and goes to the politeness delay when items remain and to the end of the
\* loop otherwise; the politeness delay is then slept and the loop takes the
\* next record of the list.
C17_SaveFailureStep ==
    /\ SaveFails =>
           /\ total_processed' = total_processed + 1
           /\ idx' = idx + 1
           /\ pc' = IF idx < Len(Items) THEN "pause" ELSE "for"
           /\ UNCHANGED <<pauses, CALIFORNIA_UNIVERSITIES>>
    /\ pc = "pause" =>
           /\ pauses' = Append(pauses, POLITENESS_DELAY_SECONDS)
           /\ pc' = "for"
           /\ UNCHANGED <<idx, total_processed, files>>
    /\ (pc = "for" /\ idx <= Len(Items)) =>
           /\ pc' \in {"try", "returned"}
           /\ name' = Items[idx].college_name
           /\ UNCHANGED <<idx, total_processed, files, pauses>>

C17_SaveFailureAbsorbed == [][C17_SaveFailureStep]_vars

\* the second item is being requested after the first item's write failed
\* past the open, with the politeness delay slept in between
C17_Witness ==
    /\ pc = "try"
    /\ idx = 2
    /\ total_processed = 1
    /\ pauses = <<POLITENESS_DELAY_SECONDS>>
    /\ files[PathOf[Items[1].college_name]] = File(EmptyContent)

-----------------------------------------------------------------------------
(* C18 *)

\* the data file is missing, unreadable, not valid JSON, or holds an empty
\* array
BadDataFile == tester_json.kind # "json" \/ tester_json.value = <<>>

Untouched == \A p \in Paths : files[p] \in {NoFile, File(OldContent)}

\* C18: with a data file that is missing, unreadable, not valid JSON or
\* empty, load_university_data returns None (the empty list for an empty
\* array) and the script goes from the load to its exit and nowhere else;
\* at the exit no request has been issued, no file written, no sleep slept
\* and no item counted, and the script exits there for no other data file.
C18_StopsBeforeWork ==
    /\ (pc # "main" /\ BadDataFile) =>
           /\ pc = "exit"
           /\ CALIFORNIA_UNIVERSITIES =
                  IF tester_json.kind = "json" THEN List(<<>>) ELSE None
    /\ pc = "exit" =>
           /\ BadDataFile
           /\ requests = 0
           /\ outcomes = <<>>
           /\ sleeps = <<>>
           /\ pauses = <<>>
           /\ Untouched
           /\ total_processed = 0
           /\ idx = 1
           /\ clock = 0
           /\ data_block = Unset

C18_Witness ==
    /\ pc = "exit"
    /\ tester_json.kind = "json"
    /\ CALIFORNIA_UNIVERSITIES = List(<<>>)
    /\ API_KEY # ""
    /\ \A p \in Paths : files[p] = File(OldContent)

-----------------------------------------------------------------------------
(* C19 *)

KeyPresent == API_KEY # ""

\* the returned value is a block that begins with the header of the current
\* item
HeaderOfItem(b) ==
    IF Truthy(b) /\ IsBlock(b)
    THEN /\ b.start = "--- UNIVERSITY_START ---"
         /\ b.name = Items[idx].college_name
         /\ b.domain = DomainOf(Items[idx].url)
         /\ IsExtracted(b) # IsFailed(b)
    ELSE FALSE

\* C19 (as claimed): with the credential present a call never returns None,
\* and the step after the return writes the returned block to the item's
\* file.
C19_OriginalStep ==
    (KeyPresent /\ Returned) =>
        /\ data_block # None
        /\ files'[PathOfItem] = File(data_block)

C19_Original == [][C19_OriginalStep]_vars

\* the returned block is handed to the write of the item's file: the file
\* holds it afterwards unless the open or the write failed
C19_WriteAttempted ==
    (KeyPresent /\ Returned) =>
        /\ Truthy(data_block)
        /\ files'[PathOfItem] \in
               {File(data_block), files[PathOfItem], File(EmptyContent)}
        /\ pc' \in {"pause", "for"}

\* C19 (amended): with the credential present a call never returns None: it
\* returns from inside the retry loop, after at least one request and at an
\* attempt index below max_retries, a non-empty block that begins with the
\* UNIVERSITY_START header for the item's name and domain; the fall-through
\* after the loop is never reached, and the caller always attempts to write
\* the item's file, which holds the block afterwards unless the open or the
\* write fails.
C19_NeverNoneWithKey ==
    /\ [](KeyPresent =>
              /\ data_block # None
              /\ attempt < max_retries
              /\ Returned => /\ HeaderOfItem(data_block)
                             /\ requests = attempt + 1
                             /\ requests \in 1..max_retries)
    /\ [][C19_WriteAttempted]_vars

\* a call that used all of its attempts returns a block with the key present
C19_Witness ==
    /\ KeyPresent
    /\ Returned
    /\ attempt = max_retries - 1
    /\ requests = max_retries
    /\ HeaderOfItem(data_block)
    /\ IsFailed(data_block)
    /\ idx = Len(Items)

====
